---- MODULE Spec2Model ----
(***************************************************************************)
(* Level Object Service (theDenaria/level-server).                         *)
(*                                                                         *)
(* Five axum handlers (src/src/main.rs) build SQL text with the query      *)
(* builder (src/src/queries.rs) and run it on a sqlx connection pool.      *)
(* The model keeps: the tables of the database the statements act on, the  *)
(* number of pooled connections checked out, the requests in flight (each  *)
(* with its position in its handler) and the response and statement text   *)
(* emitted by the last step.                                               *)
(*                                                                         *)
(* Text is a sequence of pieces: a version token is a sequence of          *)
(* one-character strings, the literal parts of a format! template are      *)
(* whole pieces, and format! is concatenation.                             *)
(***************************************************************************)
EXTENDS Integers, Sequences, FiniteSets, Bags, TLC

VARIABLES db, hist, pool, inflight, resp, stmt

vars == <<db, hist, pool, inflight, resp, stmt>>

(***************************************************************************)
(* Bounds of the model and constants of the program.                       *)
(***************************************************************************)
\* requests handled concurrently by the runtime
MaxInFlight == 2

\* largest value a table's id sequence hands out
MaxId == 2

\* PgPoolOptions::max_connections
MaxConnections == 5

\* VARCHAR(255) of object_type, position, scale and rotation
VarcharMax == 255

(***************************************************************************)
(* Inputs.                                                                 *)
(***************************************************************************)
\* version tokens a caller sends: a plain one and one carrying ';'
PlainVersions == { <<"1">> }

Versions == PlainVersions \cup { <<"2">>, <<"1", ";">> }

Ids == 1..MaxId

\* a string of VarcharMax + 1 characters
LongString ==
    "aaaaaaaaaaaaaaaaaaaaaaaaaaaaaaaaaaaaaaaaaaaaaaaaaaaaaaaaaaaaaaaa"
    \o "aaaaaaaaaaaaaaaaaaaaaaaaaaaaaaaaaaaaaaaaaaaaaaaaaaaaaaaaaaaaaaaa"
    \o "aaaaaaaaaaaaaaaaaaaaaaaaaaaaaaaaaaaaaaaaaaaaaaaaaaaaaaaaaaaaaaaa"
    \o "aaaaaaaaaaaaaaaaaaaaaaaaaaaaaaaaaaaaaaaaaaaaaaaaaaaaaaaaaaaaaaaa"

\* the object fields of a SetObject body: one that fits the columns and one
\* whose object_type is longer than its column
FittingFields ==
    { [object_type |-> "cube", position |-> "1,2,3", rotation |-> "0,90,0",
       scale |-> "2,2,2", collider |-> "box"] }

FieldInputs ==
    FittingFields \cup
    { [object_type |-> LongString, position |-> "1,2,3", rotation |-> "0,90,0",
       scale |-> "2,2,2", collider |-> "box"] }

NoFields ==
    [object_type |-> "", position |-> "", rotation |-> "", scale |-> "",
     collider |-> ""]

(***************************************************************************)
(* Query builder: src/src/queries.rs.                                      *)
(***************************************************************************)
get_object_by_id_sql(version) ==
    <<"SELECT * FROM objects_v">> \o version \o <<" WHERE id = $1">>

get_objects_sql(version) == <<"SELECT * FROM objects_v">> \o version

delete_all_sql(version) == <<"DELETE FROM objects_v">> \o version

get_first_id_sql(version) == <<"SELECT MIN(id) FROM objects_v">> \o version

\* slip: the count is taken from a fixed table, whatever the version
get_row_count_sql_fixed(version) ==
    <<"SELECT COUNT(*) AS row_count FROM objects_v">> \o <<"1">>

\* slip: the text of get_first_id_sql where the count is meant
get_row_count_sql_min(version) ==
    <<"SELECT MIN(id) FROM objects_v">> \o version

get_row_count_sql(version) ==
    <<"SELECT COUNT(*) AS row_count FROM objects_v">> \o version

set_object_sql(version) ==
    <<"INSERT INTO objects_v">> \o version
        \o <<" (object_type, position, rotation, scale, collider) VALUES ($1, $2, $3, $4, $5)">>

\* the raw string of the code, its line breaks and indentation included
create_table_sql(version) ==
    <<"CREATE TABLE IF NOT EXISTS objects_v">> \o version
        \o <<" (\n        id SERIAL PRIMARY KEY,\n        object_type VARCHAR(255) NOT NULL,\n        position VARCHAR(255) NOT NULL,\n        scale VARCHAR(255) NOT NULL,\n        rotation VARCHAR(255) NOT NULL,\n        collider TEXT NOT NULL\n        )">>

(***************************************************************************)
(* The database's reading of a statement.  An identifier is the longest    *)
(* run of identifier characters after the statement's head; what follows   *)
(* it is the trailer.  A statement is as built when its trailer is the one *)
(* its template has.                                                       *)
(***************************************************************************)
IdentChars ==
    { "0", "1", "2", "3", "4", "5", "6", "7", "8", "9", "_",
      "a", "b", "c", "d", "e", "f", "g", "h", "i", "j", "k", "l", "m",
      "n", "o", "p", "q", "r", "s", "t", "u", "v", "w", "x", "y", "z",
      "A", "B", "C", "D", "E", "F", "G", "H", "I", "J", "K", "L", "M",
      "N", "O", "P", "Q", "R", "S", "T", "U", "V", "W", "X", "Y", "Z" }

RECURSIVE IdentLen(_)
IdentLen(s) ==
    IF s = <<>> \/ Head(s) \notin IdentChars THEN 0 ELSE 1 + IdentLen(Tail(s))

\* the suffix of the table name a statement addresses
TableOf(sql) == SubSeq(Tail(sql), 1, IdentLen(Tail(sql)))

\* the text of a statement after its table name
Trailer(sql) == SubSeq(Tail(sql), IdentLen(Tail(sql)) + 1, Len(Tail(sql)))

\* the trailer the template of a statement has, by the statement's head
TemplateTrailer(sql) ==
    CASE sql[1] = "SELECT * FROM objects_v" ->
            { <<>>, SubSeq(get_object_by_id_sql(<<>>), 2, 2) }
      [] sql[1] = "INSERT INTO objects_v" -> { SubSeq(set_object_sql(<<>>), 2, 2) }
      [] sql[1] = "CREATE TABLE IF NOT EXISTS objects_v" ->
            { SubSeq(create_table_sql(<<>>), 2, 2) }
      [] OTHER -> { <<>> }

AsBuilt(sql) == Trailer(sql) \in TemplateTrailer(sql)

\* the table a version token selects
VersionTable(version) == TableOf(get_objects_sql(version))

Tables == { VersionTable(v) : v \in Versions }

(***************************************************************************)
(* The database: per table, whether it exists, its rows and the next value *)
(* of its id sequence.  Each operation returns the result the driver hands *)
(* the handler and the table after it.                                     *)
(***************************************************************************)
Ok(v) == [ok |-> TRUE, val |-> v]

Err(e) == [ok |-> FALSE, val |-> e]

\* a nullable scalar decoded as Option: Some(x), or None for SQL NULL
Some(x) == <<x>>

None == <<>>

MinOf(S) == CHOOSE m \in S : \A x \in S : m <= x

FitsColumns(f) ==
    /\ Len(f.object_type) <= VarcharMax
    /\ Len(f.position) <= VarcharMax
    /\ Len(f.scale) <= VarcharMax
    /\ Len(f.rotation) <= VarcharMax

\* CREATE TABLE IF NOT EXISTS: an absent table appears empty, sequence at 1
DbCreate(t) ==
    IF t.exists THEN [res |-> Ok(0), tab |-> t]
    ELSE [res |-> Ok(0), tab |-> [exists |-> TRUE, rows |-> {}, seq |-> 1]]

\* DELETE FROM: removes every row and leaves the id sequence where it is
DbDeleteAll(t) ==
    IF ~t.exists THEN [res |-> Err("undefined table"), tab |-> t]
    ELSE [res |-> Ok(Cardinality(t.rows)), tab |-> [t EXCEPT !.rows = {}]]

\* SELECT COUNT(*)
DbCount(t) ==
    IF ~t.exists THEN [res |-> Err("undefined table"), tab |-> t]
    ELSE [res |-> Ok(Some(Cardinality(t.rows))), tab |-> t]

\* SELECT MIN(id): one row, NULL over no rows
DbMinId(t) ==
    IF ~t.exists THEN [res |-> Err("undefined table"), tab |-> t]
    ELSE IF t.rows = {} THEN [res |-> Ok(None), tab |-> t]
    ELSE [res |-> Ok(Some(MinOf({ r.id : r \in t.rows }))), tab |-> t]

\* SELECT * ... WHERE id = $1 through fetch_one
DbSelectById(t, id) ==
    IF ~t.exists THEN [res |-> Err("undefined table"), tab |-> t]
    ELSE IF \E r \in t.rows : r.id = id
         THEN [res |-> Ok(CHOOSE r \in t.rows : r.id = id), tab |-> t]
         ELSE [res |-> Err("RowNotFound"), tab |-> t]

\* SELECT * through fetch_all
DbSelectAll(t) ==
    IF ~t.exists THEN [res |-> Err("undefined table"), tab |-> t]
    ELSE [res |-> Ok(t.rows), tab |-> t]

\* the row an INSERT stores: $1..$5 in the order of the column list, the id
\* from the sequence
NewRow(id, b) ==
    [id |-> id, object_type |-> b[1], position |-> b[2], rotation |-> b[3],
     scale |-> b[4], collider |-> b[5]]

\* INSERT: a value longer than its column, or a sequence that has run out,
\* fails the statement; burn tells whether the failed statement had drawn
\* its id from the sequence
DbInsert(t, b, burn) ==
    IF ~t.exists THEN [res |-> Err("undefined table"), tab |-> t]
    ELSE IF t.seq > MaxId THEN [res |-> Err("sequence exhausted"), tab |-> t]
    ELSE IF ~FitsColumns(NewRow(t.seq, b))
         THEN [res |-> Err("value too long"),
               tab |-> [t EXCEPT !.seq = IF burn THEN @ + 1 ELSE @]]
    ELSE [res |-> Ok(1),
          tab |-> [t EXCEPT !.rows = @ \cup { NewRow(t.seq, b) }, !.seq = @ + 1]]

\* the database runs a statement on table t with bound parameters b
DbRun(sql, b, t, burn) ==
    CASE sql[1] = "CREATE TABLE IF NOT EXISTS objects_v" -> DbCreate(t)
      [] sql[1] = "DELETE FROM objects_v" -> DbDeleteAll(t)
      [] sql[1] = "SELECT COUNT(*) AS row_count FROM objects_v" -> DbCount(t)
      [] sql[1] = "SELECT MIN(id) FROM objects_v" -> DbMinId(t)
      [] sql[1] = "INSERT INTO objects_v" -> DbInsert(t, b, burn)
      [] sql[1] = "SELECT * FROM objects_v" /\ sql[Len(sql)] = " WHERE id = $1" ->
            DbSelectById(t, b[1])
      [] OTHER -> DbSelectAll(t)

(***************************************************************************)
(* Requests and responses.                                                 *)
(*                                                                         *)
(* A request in flight carries its parameters, the index pc of the         *)
(* statement its handler runs next and whether it holds a pooled           *)
(* connection for it.  The remaining fields record its history and are     *)
(* read by no handler: failed (the statements of it that returned Err),    *)
(* timedOut (a connection acquisition of it timed out), start (the rows of *)
(* its table when it arrived, -1 for an absent table or when not           *)
(* recorded), overlap (for a SetObject, the writers on its table that were *)
(* in flight with it: "none", other "set_object" only, or a "prepare"),    *)
(* newId and fresh (the id its INSERT stored and whether no row of the     *)
(* table had carried it before).                                           *)
(***************************************************************************)
Ops == { "prepare", "get_objects", "get_object", "get_first", "set_object" }

Writers == { "prepare", "set_object" }

NewRequest(op, version, id, fields, start, overlap) ==
    [op |-> op, version |-> version, id |-> id, fields |-> fields,
     pc |-> 1, conn |-> FALSE, failed |-> {}, timedOut |-> FALSE,
     start |-> start, overlap |-> overlap, newId |-> 0, fresh |-> TRUE]

\* no request; pc 0 is a request whose handler never started
NoRequest == [NewRequest("none", <<>>, 0, NoFields, -1, "none") EXCEPT !.pc = 0]

NoResponse == [req |-> NoRequest, status |-> 0, body |-> "none"]

NoStatement == <<>>

\* main.rs: internal_error and internal_error_from_string
internal_error(e) == [status |-> 500, body |-> e]

internal_error_from_string(err_string) == [status |-> 500, body |-> err_string]

\* Ok(Json(v)): axum answers 200 with the value as body
JsonOk(v) == [status |-> 200, body |-> v]

\* an extractor (Query, Json) that cannot deserialize the request answers
\* with a client error before the handler runs
Rejection(op) ==
    [status |-> IF op = "set_object" THEN 422 ELSE 400,
     body |-> "failed to deserialize request"]

RowsAtStart(t) == IF db[t].exists THEN Cardinality(db[t].rows) ELSE -1

WritersOn(t) ==
    { r \in BagToSet(inflight) : r.op \in Writers /\ VersionTable(r.version) = t }

OverlapAtStart(op, t) ==
    IF op # "set_object" \/ WritersOn(t) = {} THEN "none"
    ELSE IF \E r \in WritersOn(t) : r.op = "prepare" THEN "prepare"
    ELSE "set_object"

RECURSIVE SumCopies(_, _)
SumCopies(S, B) ==
    IF S = {} THEN 0
    ELSE LET x == CHOOSE y \in S : TRUE IN B[x] + SumCopies(S \ { x }, B)

\* a SetObject in flight sees a writer arrive on its table
Joined(r, op, t) ==
    IF op \in Writers /\ r.op = "set_object" /\ VersionTable(r.version) = t
    THEN [r EXCEPT !.overlap = IF op = "prepare" \/ @ = "prepare" THEN "prepare"
                               ELSE "set_object"]
    ELSE r

JoinedAll(B, op, t) ==
    [y \in { Joined(x, op, t) : x \in DOMAIN B } |->
        SumCopies({ x \in DOMAIN B : Joined(x, op, t) = y }, B)]

Replace(B, r, r2) == (B (-) SetToBag({ r })) (+) SetToBag({ r2 })

Remove(B, r) == B (-) SetToBag({ r })

(***************************************************************************)
(* One statement on the pool.                                              *)
(*                                                                         *)
(* fault "timeout": every connection stayed checked out for the whole of   *)
(* acquire_timeout, no connection was acquired and the statement was never *)
(* sent.  fault "io": the statement was sent on the connection the         *)
(* request holds and failed without effect (connection error).  Otherwise *)
(* the database runs it: a statement as built acts on its table; one whose *)
(* table name is followed by text of the caller is either refused or runs  *)
(* on the table named before that text (lenient).                          *)
(***************************************************************************)
Faults == { "none", "io", "timeout" }

Execute(sql, b, fault, lenient, burn) ==
    IF fault = "timeout" THEN [res |-> Err("PoolTimedOut"), tab |-> db[TableOf(sql)]]
    ELSE IF fault = "io" THEN [res |-> Err("Io"), tab |-> db[TableOf(sql)]]
    ELSE IF ~AsBuilt(sql) /\ ~lenient
         THEN [res |-> Err("syntax error"), tab |-> db[TableOf(sql)]]
    ELSE DbRun(sql, b, db[TableOf(sql)], burn)

\* the request may take this step: it waits for a connection of an
\* exhausted pool when the acquisition times out, and holds one when the
\* statement is sent
MayRun(r, fault) ==
    IF fault = "timeout" THEN ~r.conn /\ pool >= MaxConnections ELSE r.conn

\* the request after a statement: the connection is back in the pool
After(r, fault, res) ==
    [r EXCEPT !.pc = @ + 1, !.conn = FALSE,
              !.failed = IF res.ok THEN @ ELSE @ \cup { r.pc },
              !.timedOut = @ \/ fault = "timeout"]

\* the pool, the database and the statement text after a statement
Ran(sql, fault, out) ==
    /\ pool' = IF fault = "timeout" THEN pool ELSE pool - 1
    /\ stmt' = IF fault = "timeout" THEN NoStatement ELSE sql
    /\ db' = [db EXCEPT ![TableOf(sql)] = out.tab]

Respond(r2, answer) == resp' = [req |-> r2, status |-> answer.status, body |-> answer.body]

(***************************************************************************)
(* Initial state: the pool is connected, no table exists, nothing is in    *)
(* flight.                                                                 *)
(***************************************************************************)
Init ==
    /\ db = [t \in Tables |-> [exists |-> FALSE, rows |-> {}, seq |-> 1]]
    /\ hist = [t \in Tables |-> [used |-> {}, sinceClear |-> 0]]
    /\ pool = 0
    /\ inflight = EmptyBag
    /\ resp = NoResponse
    /\ stmt = NoStatement

(***************************************************************************)
(* axum::serve: a request arrives and its handler starts; or its           *)
(* parameters do not deserialize and the extractor rejects it.             *)
(***************************************************************************)
\* a request of one of ops arrives; observed are the operations whose
\* start is recorded
Accept(ops, versions, fieldInputs, observed) ==
    /\ \E op \in ops, version \in versions :
       \E id \in (IF op = "get_object" THEN Ids ELSE { 0 }),
          fields \in (IF op = "set_object" THEN fieldInputs ELSE { NoFields }) :
            LET t == VersionTable(version)
                q == NewRequest(op, version, id, fields,
                        IF op \in observed THEN RowsAtStart(t) ELSE -1,
                        OverlapAtStart(op, t))
            IN  inflight' = JoinedAll(inflight, op, t) (+) SetToBag({ q })
    /\ resp' = NoResponse
    /\ stmt' = NoStatement
    /\ UNCHANGED <<db, hist, pool>>

\* a client that sends one request at a time
Serve ==
    /\ inflight = EmptyBag
    /\ Accept(Ops, Versions, FieldInputs, Writers)

\* clients that write to one version at the same time
ServeWriters ==
    /\ BagCardinality(inflight) < MaxInFlight
    /\ Accept(Writers, PlainVersions, FittingFields, { "set_object" })

\* more clients than the pool has connections: readers of the first id and,
\* one at a time, a writer
ServePool ==
    /\ BagCardinality(inflight) <= MaxConnections
    /\ Accept(IF \E r \in BagToSet(inflight) : r.op \in Writers
              THEN { "get_first" } ELSE { "get_first" } \cup Writers,
              PlainVersions, FittingFields, {})

RejectMalformed ==
    /\ \E op \in Ops :
          Respond([NoRequest EXCEPT !.op = op], Rejection(op))
    /\ stmt' = NoStatement
    /\ UNCHANGED <<db, hist, pool, inflight>>

(***************************************************************************)
(* Pool: a request whose next statement needs a connection takes one when  *)
(* fewer than max_connections are checked out.                             *)
(***************************************************************************)
Acquire(r) ==
    /\ ~r.conn
    /\ pool < MaxConnections
    /\ pool' = pool + 1
    /\ inflight' = Replace(inflight, r, [r EXCEPT !.conn = TRUE])
    /\ resp' = NoResponse
    /\ stmt' = NoStatement
    /\ UNCHANGED <<db, hist>>

(***************************************************************************)
(* Handlers: src/src/main.rs.  A handler with one statement answers in the *)
(* step that runs it; set_object and prepare_table run theirs one after    *)
(* another and answer after the last.                                      *)
(***************************************************************************)
get_object(r) ==
    /\ r.op = "get_object" /\ r.pc = 1
    /\ \E fault \in Faults, lenient \in BOOLEAN :
         LET query_string == get_object_by_id_sql(r.version)
             result == Execute(query_string, <<r.id>>, fault, lenient, FALSE)
         IN  /\ MayRun(r, fault)
             /\ Ran(query_string, fault, result)
             /\ Respond(After(r, fault, result.res),
                        IF result.res.ok THEN JsonOk(result.res.val)
                        ELSE internal_error(result.res.val))
    /\ inflight' = Remove(inflight, r)
    /\ UNCHANGED hist

\* slip: a NULL minimum answered as the default id
get_first_id_answer_default(result) ==
    IF result.ok
    THEN JsonOk([id |-> IF result.val # None THEN result.val[1] ELSE 0])
    ELSE internal_error(result.val)

\* the match of get_first_id on the decoded Option<i32>
get_first_id_answer(result) ==
    IF result.ok
    THEN IF result.val # None THEN JsonOk([id |-> result.val[1]])
         ELSE internal_error_from_string("No id found")
    ELSE internal_error(result.val)

get_first_id(r) ==
    /\ r.op = "get_first" /\ r.pc = 1
    /\ \E fault \in Faults, lenient \in BOOLEAN :
         LET query_string == get_first_id_sql(r.version)
             result == Execute(query_string, <<>>, fault, lenient, FALSE)
         IN  /\ MayRun(r, fault)
             /\ Ran(query_string, fault, result)
             /\ Respond(After(r, fault, result.res), get_first_id_answer(result.res))
    /\ inflight' = Remove(inflight, r)
    /\ UNCHANGED hist

get_objects(r) ==
    /\ r.op = "get_objects" /\ r.pc = 1
    /\ \E fault \in Faults, lenient \in BOOLEAN :
         LET query_string == get_objects_sql(r.version)
             result == Execute(query_string, <<>>, fault, lenient, FALSE)
         IN  /\ MayRun(r, fault)
             /\ Ran(query_string, fault, result)
             /\ Respond(After(r, fault, result.res),
                        IF result.res.ok THEN JsonOk([objects |-> result.res.val])
                        ELSE internal_error(result.res.val))
    /\ inflight' = Remove(inflight, r)
    /\ UNCHANGED hist

\* the parameters set_object binds, in the order it binds them
set_object_binds(req) ==
    <<req.object_type, req.position, req.rotation, req.scale, req.collider>>

\* set_object, first statement: the INSERT; its result goes to _set_result
\* and is not read
set_object_insert(r) ==
    /\ r.op = "set_object" /\ r.pc = 1
    /\ \E fault \in Faults, lenient \in BOOLEAN, burn \in BOOLEAN :
         LET query_string == set_object_sql(r.version)
             t == TableOf(query_string)
             _set_result == Execute(query_string, set_object_binds(r.fields),
                                    fault, lenient, burn)
             added == { row.id : row \in _set_result.tab.rows \ db[t].rows }
         IN  /\ MayRun(r, fault)
             /\ Ran(query_string, fault, _set_result)
             /\ inflight' = Replace(inflight, r,
                    [After(r, fault, _set_result.res) EXCEPT
                        !.newId = IF added = {} THEN 0 ELSE MinOf(added),
                        !.fresh = added \cap hist[t].used = {}])
             /\ hist' = [hist EXCEPT ![t].used = @ \cup added,
                                     ![t].sinceClear = @ + Cardinality(added)]
    /\ resp' = NoResponse

\* the match of set_object on count_result
set_object_answer(count_result) ==
    IF count_result.ok
    THEN IF count_result.val # None
         THEN JsonOk([count |-> count_result.val[1], success |-> TRUE])
         ELSE [status |-> 500, body |-> "No count"]
    ELSE internal_error_from_string(count_result.val)

\* set_object, second statement: the COUNT, and the answer
set_object_count(r) ==
    /\ r.op = "set_object" /\ r.pc = 2
    /\ \E fault \in Faults, lenient \in BOOLEAN :
         LET query_string == get_row_count_sql(r.version)
             count_result == Execute(query_string, <<>>, fault, lenient, FALSE)
         IN  /\ MayRun(r, fault)
             /\ Ran(query_string, fault, count_result)
             /\ Respond(After(r, fault, count_result.res),
                        set_object_answer(count_result.res))
    /\ inflight' = Remove(inflight, r)
    /\ UNCHANGED hist

\* a table that has just been created or emptied has no insert since
Cleared(h, before, after) ==
    IF (after.exists /\ ~before.exists) \/ (after.rows = {} /\ before.rows # {})
    THEN [h EXCEPT !.sinceClear = 0] ELSE h

\* prepare_table, first statement: CREATE TABLE IF NOT EXISTS; its result
\* goes to set_result and is not read
prepare_table_create(r) ==
    /\ r.op = "prepare" /\ r.pc = 1
    /\ \E fault \in Faults, lenient \in BOOLEAN :
         LET query_string == create_table_sql(r.version)
             t == TableOf(query_string)
             set_result == Execute(query_string, <<>>, fault, lenient, FALSE)
         IN  /\ MayRun(r, fault)
             /\ Ran(query_string, fault, set_result)
             /\ inflight' = Replace(inflight, r, After(r, fault, set_result.res))
             /\ hist' = [hist EXCEPT ![t] = Cleared(@, db[t], set_result.tab)]
    /\ resp' = NoResponse

\* prepare_table, second statement: DELETE; its result is not read either
prepare_table_delete(r) ==
    /\ r.op = "prepare" /\ r.pc = 2
    /\ \E fault \in Faults, lenient \in BOOLEAN :
         LET query_string == delete_all_sql(r.version)
             t == TableOf(query_string)
             set_result == Execute(query_string, <<>>, fault, lenient, FALSE)
         IN  /\ MayRun(r, fault)
             /\ Ran(query_string, fault, set_result)
             /\ inflight' = Replace(inflight, r, After(r, fault, set_result.res))
             /\ hist' = [hist EXCEPT ![t] = Cleared(@, db[t], set_result.tab)]
    /\ resp' = NoResponse

\* slip: the two branches on the count exchanged
prepare_table_answer_swapped(count_result) ==
    IF count_result.ok
    THEN IF count_result.val # None
         THEN IF count_result.val[1] = 0
              THEN JsonOk([count |-> count_result.val[1], success |-> FALSE])
              ELSE JsonOk([count |-> count_result.val[1], success |-> TRUE])
         ELSE [status |-> 500, body |-> "No count"]
    ELSE internal_error_from_string(count_result.val)

\* the match of prepare_table on count_result
prepare_table_answer(count_result) ==
    IF count_result.ok
    THEN IF count_result.val # None
         THEN IF count_result.val[1] = 0
              THEN JsonOk([count |-> count_result.val[1], success |-> TRUE])
              ELSE JsonOk([count |-> count_result.val[1], success |-> FALSE])
         ELSE [status |-> 500, body |-> "No count"]
    ELSE internal_error_from_string(count_result.val)

\* prepare_table, third statement: the COUNT, and the answer
prepare_table_count(r) ==
    /\ r.op = "prepare" /\ r.pc = 3
    /\ \E fault \in Faults, lenient \in BOOLEAN :
         LET query_string == get_row_count_sql(r.version)
             count_result == Execute(query_string, <<>>, fault, lenient, FALSE)
         IN  /\ MayRun(r, fault)
             /\ Ran(query_string, fault, count_result)
             /\ Respond(After(r, fault, count_result.res),
                        prepare_table_answer(count_result.res))
    /\ inflight' = Remove(inflight, r)
    /\ UNCHANGED hist

Next ==
    \/ Serve
    \/ RejectMalformed
    \/ \E r \in BagToSet(inflight) : Acquire(r)
    \/ \E r \in BagToSet(inflight) : get_object(r)
    \/ \E r \in BagToSet(inflight) : get_first_id(r)
    \/ \E r \in BagToSet(inflight) : get_objects(r)
    \/ \E r \in BagToSet(inflight) : set_object_insert(r)
    \/ \E r \in BagToSet(inflight) : set_object_count(r)
    \/ \E r \in BagToSet(inflight) : prepare_table_create(r)
    \/ \E r \in BagToSet(inflight) : prepare_table_delete(r)
    \/ \E r \in BagToSet(inflight) : prepare_table_count(r)

Spec == Init /\ [][Next]_vars

NextWriters ==
    \/ ServeWriters
    \/ \E r \in BagToSet(inflight) : Acquire(r)
    \/ \E r \in BagToSet(inflight) : set_object_insert(r)
    \/ \E r \in BagToSet(inflight) : set_object_count(r)
    \/ \E r \in BagToSet(inflight) : prepare_table_create(r)
    \/ \E r \in BagToSet(inflight) : prepare_table_delete(r)
    \/ \E r \in BagToSet(inflight) : prepare_table_count(r)

SpecWriters == Init /\ [][NextWriters]_vars

NextPool ==
    \/ ServePool
    \/ \E r \in BagToSet(inflight) : Acquire(r)
    \/ \E r \in BagToSet(inflight) : get_first_id(r)
    \/ \E r \in BagToSet(inflight) : set_object_insert(r)
    \/ \E r \in BagToSet(inflight) : set_object_count(r)
    \/ \E r \in BagToSet(inflight) : prepare_table_create(r)
    \/ \E r \in BagToSet(inflight) : prepare_table_delete(r)
    \/ \E r \in BagToSet(inflight) : prepare_table_count(r)

SpecPool == Init /\ [][NextPool]_vars

(***************************************************************************)
(* Properties.                                                             *)
(*                                                                         *)
(* resp is the response sent by the last step and stmt the statement text  *)
(* that step sent to the database, so a state predicate over resp, stmt    *)
(* and db speaks of the moment a request is answered.                      *)
(***************************************************************************)
\* a version token of the safe character set
SafeToken(version) ==
    /\ version # <<>>
    /\ \A i \in 1..Len(version) : version[i] \in IdentChars

\* the status category of a response
Category(status) == status \div 100

\* the last step answered a request of op whose handler ran
Answered(op) == resp.req.op = op /\ resp.req.pc > 0

AnsweredTable == VersionTable(resp.req.version)

\* what a ListObjects that runs next answers
ListedNext == DbRun(get_objects_sql(resp.req.version), <<>>, db[AnsweredTable], FALSE).res

\* C1: a SetObject whose INSERT failed is answered with an error and has not
\* issued the COUNT query; it is never answered {count, success: true}.
C1_InsertFailureSurfaced ==
    (Answered("set_object") /\ 1 \in resp.req.failed)
        => /\ resp.status # 200
           /\ stmt # get_row_count_sql(resp.req.version)

\* C2: a request whose version token has a character outside
\* alphanumeric/underscore is answered with a client error, and no statement
\* built from such a token reaches the database.
C2_UnsafeTokenRejected ==
    /\ (resp.req.op \in Ops /\ resp.req.version # <<>> /\ ~SafeToken(resp.req.version))
          => Category(resp.status) = 4
    /\ stmt # NoStatement => AsBuilt(stmt)

\* C3: with requests run one after another, the SetObject that inserts the
\* Nth row since its table was created or emptied by Prepare is answered
\* count = N, which is one more than the rows it found.
C3_NthInsertCountsN ==
    (Answered("set_object") /\ resp.status = 200 /\ 1 \notin resp.req.failed)
        => /\ resp.body.count = hist[AnsweredTable].sinceClear
           /\ resp.body.count = resp.req.start + 1
           /\ resp.body.success

\* C3 witness: a SetObject that inserted the second row is answered.
C3_SecondInsertAnswered ==
    /\ Answered("set_object") /\ resp.status = 200 /\ 1 \notin resp.req.failed
    /\ hist[AnsweredTable].sinceClear = 2
    /\ resp.req.version \in PlainVersions

\* C4: after a SetObject answered success, ListObjects on the version lists
\* a row with exactly the submitted fields, under an id no row of the
\* version carried before.
C4_InsertedRowListed ==
    (Answered("set_object") /\ resp.status = 200 /\ SafeToken(resp.req.version)
        /\ resp.body.success)
        => /\ ListedNext.ok
           /\ \E o \in ListedNext.val :
                 /\ o = NewRow(o.id, set_object_binds(resp.req.fields))
                 /\ o.id = resp.req.newId
           /\ resp.req.fresh

\* C5: a Prepare all of whose statements ran leaves its table existing and
\* empty and is answered {count: 0, success: true}, whatever the table was
\* before; so does the Prepare after it.
C5_PrepareIdempotent ==
    (Answered("prepare") /\ resp.req.failed = {})
        => /\ resp.status = 200
           /\ resp.body = [count |-> 0, success |-> TRUE]
           /\ db[AnsweredTable].exists
           /\ db[AnsweredTable].rows = {}

\* C5 witness: a Prepare is answered that found the table existing and
\* already emptied of the rows it once held.
C5_PreparedAgain ==
    /\ Answered("prepare") /\ resp.req.failed = {}
    /\ resp.status = 200
    /\ resp.req.start = 0
    /\ hist[AnsweredTable].used # {}

\* C6: a Prepare one of whose statements (CREATE TABLE, DELETE, COUNT)
\* failed is answered with an internal error, never with 200.
C6_PrepareErrorsSurface ==
    (Answered("prepare") /\ resp.req.failed # {}) => resp.status = 500

\* C7: a GetObject whose id matches no row is answered with a status
\* category that is neither that of a malformed request nor that of a
\* database failure.
C7_NotFoundDistinct ==
    (Answered("get_object") /\ resp.status # 200 /\ resp.body = "RowNotFound")
        => /\ Category(resp.status) # Category(Rejection("get_object").status)
           /\ Category(resp.status) # Category(internal_error("Io").status)

\* C8: a GetFirstId whose query ran is answered, on a table without rows,
\* with the error "No id found" and no id, and on a table with rows with
\* the least id among them.
C8_FirstIdOrNotFound ==
    (Answered("get_first") /\ resp.req.failed = {})
        => IF db[AnsweredTable].rows = {}
           THEN resp.status # 200 /\ resp.body = "No id found"
           ELSE /\ resp.status = 200
                /\ resp.body = [id |-> MinOf({ o.id : o \in db[AnsweredTable].rows })]

\* C8 witness: GetFirstId is answered on a table that Prepare emptied.
C8_FirstIdOnEmptied ==
    /\ Answered("get_first") /\ resp.req.failed = {}
    /\ db[AnsweredTable].exists
    /\ db[AnsweredTable].rows = {}
    /\ hist[AnsweredTable].used # {}

\* C9: at most 5 pooled connections are in use, and a request one of whose
\* connection acquisitions timed out is answered with an error.
C9_TimeoutIsAnError ==
    /\ pool <= MaxConnections
    /\ (resp.req.op \in Ops /\ resp.req.timedOut) => resp.status # 200

\* C10: a SetObject that ran with no Prepare in flight on its version and
\* none of whose statements failed is answered a count that includes its
\* own row and the rows present when it arrived, and is at most the number
\* of inserts committed so far.
C10_ConcurrentCounts ==
    (Answered("set_object") /\ resp.req.failed = {} /\ resp.req.overlap # "prepare")
        => /\ resp.status = 200
           /\ resp.body.count >= resp.req.start + 1
           /\ resp.body.count <= Cardinality(hist[AnsweredTable].used)

\* C10 witness: of two overlapping SetObject, one is answered a count that
\* holds both rows while the other has inserted and has yet to count.
C10_OverlappingSameCount ==
    /\ Answered("set_object") /\ resp.req.failed = {}
    /\ resp.req.overlap = "set_object"
    /\ resp.status = 200
    /\ resp.body.count = resp.req.start + 2
    /\ \E r \in BagToSet(inflight) :
          r.op = "set_object" /\ r.pc = 2 /\ r.failed = {} /\ r.overlap = "set_object"

====
